---- MODULE Spec2Model ----
(***************************************************************************)
(* State-machine model of reid/trainers.py: the single-stream Trainer and  *)
(* the dual-stream CamStyleTrainer.  One train call is split at the calls  *)
(* it makes (fetch, forward, statistics, zero_grad, backward, step, log),  *)
(* so that their order is observable.  The model, the criterion, the       *)
(* optimizer and the data loaders are collaborators: they are stubbed by   *)
(* small integer-valued functions of the batch that was fetched.           *)
(***************************************************************************)
EXTENDS Integers, Sequences, FiniteSets, TLC

(* ------------------------------ bounds --------------------------------- *)
MaxB == 2          \* longest primary stream (len(data_loader))
MaxK == 2          \* longest auxiliary (camstyle) stream
MaxCalls == 3      \* train calls per trainer object
MaxParts == 2      \* most per-part predictions of a part-based model
MaxN == 2          \* largest batch size targets.size(0)
MaxPrintFreq == 2  \* largest print_freq
MaxClasses == 5    \* most classes of the logits given to _lsr_loss

(* --------------------------- collaborators ----------------------------- *)
Trainers == {"Trainer", "CamStyleTrainer"}
\* the class of self.criterion; "Other" is any class that is neither
\* torch.nn.CrossEntropyLoss nor TripletLoss
Criteria == {"CrossEntropyLoss", "TripletLoss", "Other"}
Seeds == 0..1
NoBatch == [n |-> 0, seed |-> 0]
PrimaryBatches == [n : 1..MaxN, seed : Seeds]
SameBatch == [n |-> 1, seed |-> 1]

\* isinstance(self.model.module, IDE_model) or isinstance(..., PCB_model)
IsPartModel(parts) == parts >= 1

\* stub of self.model(inputs): a plain model returns one tensor, a
\* part-based model the pair (embedding, sequence of per-part logits);
\* tensors are named by small integers
Tensor(b) == b.seed + 1
PartLogits(b, parts) == [j \in 1..parts |-> b.seed + j]
Model(b, parts) ==
    IF IsPartModel(parts)
    THEN [kind |-> "pair", emb |-> Tensor(b) + 10, preds |-> PartLogits(b, parts)]
    ELSE [kind |-> "tensor", id |-> Tensor(b)]
\* outputs[0] and outputs[1] of a pair
Item0(o) == [kind |-> "tensor", id |-> o.emb]
Item1(o) == o.preds
NoValue == [kind |-> "none"]

\* stub of torch.nn.CrossEntropyLoss()(pred, targets) and of accuracy()
CrossEntropy(pred) == pred
accuracy(pred) == pred % 2

\* stub of TripletLoss()(emb, targets): (loss, prec, dist_ap, dist_an)
Margin == 1
TripletLoss(emb) ==
    [loss |-> emb, prec |-> emb % 2, dist_ap |-> emb % 3, dist_an |-> emb % 5]

\* the k-th batch of the auxiliary stream, replayed in the same order
AuxBatch(k) == [n |-> 1, seed |-> k % 2]

RECURSIVE SumSeq(_)
SumSeq(s) == IF s = <<>> THEN 0 ELSE Head(s) + SumSeq(Tail(s))

(* ------------------------- running statistics -------------------------- *)
\* an average is kept exact, as the pair <<sum, count>>
AverageMeter == [val |-> 0, sum |-> 0, count |-> 0]
update(m, v, w) == [val |-> v, sum |-> m.sum + v * w, count |-> m.count + w]
avg(m) == <<m.sum, m.count>>
RatEq(a, b) == a[2] > 0 /\ b[2] > 0 /\ a[1] * b[2] = b[1] * a[2]

LoopMeters == {"batch_time", "data_time", "losses", "precisions"}
TripletMeters == {"prec_meter", "sm_meter", "dist_ap_meter", "dist_an_meter", "loss_meter"}

(* ------------------------------ the model ------------------------------ *)
ModuleIds == {"base.conv1", "base.bn1", "base.bn2", "classifier.bn"}
InBase(m) == m \in {"base.conv1", "base.bn1", "base.bn2"}
IsBatchNorm2d(m) == m \in {"base.bn1", "base.bn2", "classifier.bn"}
Affine(m) == m \in {"base.bn1", "classifier.bn"}
HasParams(m) == m = "base.conv1" \/ Affine(m)

VARIABLES
    trainer,          \* which trainer class the object is
    criterion,        \* class of self.criterion
    numParts,         \* 0: plain model; >= 1: IDE/PCB model with that many parts
    camstyle_len,     \* number of batches of self.camstyle_loader
    camstyle_iter,    \* self.camstyle_loader_iter: batches consumed from it
    modules,          \* train/eval mode and requires_grad of each module
    calls,            \* train calls started on this object
    pc,               \* position inside the current train call
    data_len,         \* len(data_loader) of the current call
    fix_bn,
    print_freq,
    i,                \* enumerate index of the batch being processed
    inputs,           \* the primary batch of this iteration
    camstyle_inputs,  \* index of the auxiliary batch of this iteration, 0 if none
    loss, prec1,      \* results of _forward for this iteration
    meters,           \* the AverageMeter objects of this call
    elapsed,          \* time.time() - end
    ret,              \* the returned pair, <<>> while there is none
    err,              \* exception that left train, "none" if none
    printed,          \* batch numbers of the per-batch log lines of this call
    summary,          \* the epoch-end line of this call, <<>> if none
    ops,              \* number of forward / zero_grad / backward / step calls
    hist,             \* <<n, loss, prec>> of every batch fed to the statistics
    aux,              \* what happened in the last auxiliary fetch
    auxFetches,       \* auxiliary batches obtained since construction
    auxFaulted,       \* a loader failure other than exhaustion has occurred
    fwd,              \* what the last _forward call did
    readEmpty,        \* a statistic was read before its first update
    num_class,        \* _lsr_loss: outputs.size()[1]
    camstyle_targets, \* _lsr_loss: the class labels of the auxiliary batch
    targets_onehot    \* _class_to_one_hot: the rows built, in units of 0.1/num_class

vars == <<trainer, criterion, numParts, camstyle_len, camstyle_iter, modules,
          calls, pc, data_len, fix_bn, print_freq, i, inputs, camstyle_inputs,
          loss, prec1, meters, elapsed, ret, err, printed, summary, ops, hist,
          aux, auxFetches, auxFaulted, fwd, readEmpty,
          num_class, camstyle_targets, targets_onehot>>

\* the smoothed targets of _lsr_loss; the train specifications use the value
\* stub lsr_loss and leave them alone
lsrVars == <<num_class, camstyle_targets, targets_onehot>>

config == <<trainer, criterion, numParts, camstyle_len>>
callArgs == <<data_len, fix_bn, print_freq>>

NoOps == [forward |-> 0, zero_grad |-> 0, backward |-> 0, step |-> 0]
NoFwd == [err |-> "none", loss |-> 0, prec |-> 0, dist_ap |-> 0, dist_an |-> 0,
          ce |-> 0, arg |-> NoValue]
NoAux == [first |-> "none", restarts |-> 0, retries |-> 0, surfaced |-> "none"]

\* BaseTrainer.__init__ / CamStyleTrainer.__init__
Init ==
    /\ trainer \in Trainers
    /\ criterion \in Criteria
    /\ numParts \in 0..MaxParts
    /\ camstyle_len \in 0..MaxK
    /\ trainer = "Trainer" => camstyle_len = 0
    /\ camstyle_iter = 0
    /\ modules = [m \in ModuleIds |->
                    [training |-> TRUE, weight |-> HasParams(m), bias |-> HasParams(m)]]
    /\ calls = 0
    /\ pc = "idle"
    /\ data_len = 0 /\ fix_bn = FALSE /\ print_freq = 1
    /\ i = -1
    /\ inputs = NoBatch
    /\ camstyle_inputs = 0
    /\ loss = 0 /\ prec1 = 0
    /\ meters = [m \in LoopMeters |-> AverageMeter]
    /\ elapsed = 0
    /\ ret = <<>>
    /\ err = "none"
    /\ printed = <<>>
    /\ summary = <<>>
    /\ ops = NoOps
    /\ hist = <<>>
    /\ aux = NoAux
    /\ auxFetches = 0
    /\ auxFaulted = FALSE
    /\ fwd = NoFwd
    /\ readEmpty = FALSE
    /\ num_class = 1
    /\ camstyle_targets = <<>>
    /\ targets_onehot = <<>>

(* ---------------------------- train: set-up ---------------------------- *)
\* self.model.train(): every module of the model goes to training mode
ModelTrain(ms) == [m \in ModuleIds |-> [ms[m] EXCEPT !.training = TRUE]]

\* variant: the mode of a backbone normalization layer is flipped
FreezeBNToggle(ms, freeze) ==
    [m \in ModuleIds |->
        IF freeze /\ InBase(m) /\ IsBatchNorm2d(m)
        THEN IF Affine(m)
             THEN [training |-> ~ms[m].training, weight |-> FALSE, bias |-> FALSE]
             ELSE [ms[m] EXCEPT !.training = ~ms[m].training]
        ELSE ms[m]]

\* variant: the normalization layers of the whole model are walked
FreezeBNWholeModel(ms, freeze) ==
    [m \in ModuleIds |->
        IF freeze /\ IsBatchNorm2d(m)
        THEN IF Affine(m)
             THEN [training |-> FALSE, weight |-> FALSE, bias |-> FALSE]
             ELSE [ms[m] EXCEPT !.training = FALSE]
        ELSE ms[m]]

\* variant: requires_grad is assigned (not fix_bn) on every call
FreezeBNUnfreezes(ms, freeze) ==
    [m \in ModuleIds |->
        IF InBase(m) /\ IsBatchNorm2d(m)
        THEN IF Affine(m)
             THEN [training |-> ms[m].training /\ ~freeze,
                   weight |-> ~freeze, bias |-> ~freeze]
             ELSE [ms[m] EXCEPT !.training = ms[m].training /\ ~freeze]
        ELSE ms[m]]

\* the fix_bn block
FreezeBN(ms, freeze) ==
    [m \in ModuleIds |->
        IF freeze /\ InBase(m) /\ IsBatchNorm2d(m)
        THEN IF Affine(m)
             THEN [training |-> FALSE, weight |-> FALSE, bias |-> FALSE]
             ELSE [ms[m] EXCEPT !.training = FALSE]
        ELSE ms[m]]

\* variant: the statistics of the previous call are kept
NewMetersStale(t, c) ==
    IF calls = 0
    THEN [m \in LoopMeters \cup (IF t = "Trainer" /\ c = "TripletLoss"
                                  THEN TripletMeters ELSE {}) |-> AverageMeter]
    ELSE meters

\* the statistics a train call creates
NewMeters(t, c) ==
    [m \in LoopMeters \cup (IF t = "Trainer" /\ c = "TripletLoss" THEN TripletMeters ELSE {})
        |-> AverageMeter]

\* variant: every train call starts the auxiliary stream again
TrainCallResets ==
    /\ pc \in {"idle", "done", "raised"}
    /\ calls' = calls + 1
    /\ \E len \in 0..MaxB, fb \in BOOLEAN, pf \in 1..MaxPrintFreq :
          /\ data_len' = len /\ fix_bn' = fb /\ print_freq' = pf
          /\ modules' = FreezeBN(ModelTrain(modules), fb)
    /\ meters' = NewMeters(trainer, criterion)
    /\ elapsed' = 0
    /\ i' = -1
    /\ inputs' = NoBatch /\ camstyle_inputs' = 0
    /\ loss' = 0 /\ prec1' = 0
    /\ ret' = <<>> /\ err' = "none"
    /\ printed' = <<>> /\ summary' = <<>>
    /\ ops' = NoOps /\ hist' = <<>> /\ aux' = NoAux
    /\ fwd' = NoFwd /\ readEmpty' = FALSE
    /\ pc' = "loop"
    /\ camstyle_iter' = 0
    /\ UNCHANGED <<lsrVars, config, auxFetches, auxFaulted>>

TrainCall ==
    /\ pc \in {"idle", "done", "raised"}
    /\ calls' = calls + 1
    /\ \E len \in 0..MaxB, fb \in BOOLEAN, pf \in 1..MaxPrintFreq :
          /\ data_len' = len /\ fix_bn' = fb /\ print_freq' = pf
          /\ modules' = FreezeBN(ModelTrain(modules), fb)
    /\ meters' = NewMeters(trainer, criterion)
    /\ elapsed' = 0
    /\ i' = -1
    /\ inputs' = NoBatch /\ camstyle_inputs' = 0
    /\ loss' = 0 /\ prec1' = 0
    /\ ret' = <<>> /\ err' = "none"
    /\ printed' = <<>> /\ summary' = <<>>
    /\ ops' = NoOps /\ hist' = <<>> /\ aux' = NoAux
    /\ fwd' = NoFwd /\ readEmpty' = FALSE
    /\ pc' = "loop"
    /\ UNCHANGED <<lsrVars, config, camstyle_iter, auxFetches, auxFaulted>>

\* the first train call on a new trainer
Train == calls = 0 /\ TrainCall

\* a train call on a trainer that may have been trained before (one per epoch)
TrainEpoch == calls < MaxCalls /\ TrainCall

(* ------------------------- train: the batch loop ----------------------- *)
\* variant: the loop leaves one batch of the stream unprocessed
LoopCondEarly(idx, len) == idx + 2 < len

\* for i, inputs in enumerate(data_loader): is there another batch?
LoopCond(idx, len) == idx + 1 < len

\* data_time.update(time.time() - end)
Fetch(batches) ==
    /\ pc = "loop"
    /\ LoopCond(i, data_len)
    /\ \E b \in batches : inputs' = b
    /\ i' = i + 1
    /\ elapsed' = elapsed + 1
    /\ meters' = [meters EXCEPT !["data_time"] = update(@, elapsed + 1, 1)]
    /\ pc' = IF trainer = "CamStyleTrainer" THEN "fetch_aux" ELSE "forward"
    /\ UNCHANGED <<lsrVars, config, callArgs, camstyle_iter, modules, calls, camstyle_inputs,
                   loss, prec1, ret, err, printed, summary, ops, hist, aux,
                   auxFetches, auxFaulted, fwd, readEmpty>>

\* the data_loader yields any batch
FetchPrimary == Fetch(PrimaryBatches)

\* the data_loader yields batches of one size and content
FetchSame == Fetch({SameBatch})

\* next(self.camstyle_loader_iter) on a cursor that has consumed pos of len
\* batches; fault is a loader failure that is not exhaustion
AuxNext(pos, len, fault) ==
    IF fault THEN [kind |-> "LoaderError", batch |-> 0, pos |-> pos]
    ELSE IF pos < len THEN [kind |-> "batch", batch |-> pos + 1, pos |-> pos + 1]
    ELSE [kind |-> "StopIteration", batch |-> 0, pos |-> pos]

\* variant: no exception of the auxiliary fetch is handled
CaughtNone(kind) == FALSE

\* the except clause of the auxiliary fetch: which exceptions it handles
Caught(kind) == TRUE

\* variant: the retry uses the exhausted cursor instead of a new one
NextOrRestartStale(pos, len, fault1, fault2) ==
    LET first == AuxNext(pos, len, fault1)
        retry == AuxNext(pos, len, fault2)
    IN  IF first.kind = "batch"
        THEN [batch |-> first.batch, pos |-> first.pos, first |-> "batch",
              restarts |-> 0, retries |-> 0, surfaced |-> "none"]
        ELSE [batch |-> retry.batch, pos |-> retry.pos, first |-> first.kind,
              restarts |-> 1, retries |-> 1,
              surfaced |-> IF retry.kind = "batch" THEN "none" ELSE retry.kind]

\* variant: the batch obtained by the retry is not counted by the new cursor
NextOrRestartRepeat(pos, len, fault1, fault2) ==
    LET first == AuxNext(pos, len, fault1)
        retry == AuxNext(0, len, fault2)
    IN  IF first.kind = "batch"
        THEN [batch |-> first.batch, pos |-> first.pos, first |-> "batch",
              restarts |-> 0, retries |-> 0, surfaced |-> "none"]
        ELSE [batch |-> retry.batch, pos |-> 0, first |-> first.kind,
              restarts |-> 1, retries |-> 1,
              surfaced |-> IF retry.kind = "batch" THEN "none" ELSE retry.kind]

\* try: next(iter) / except: iter = iter(loader); next(iter)
NextOrRestart(pos, len, fault1, fault2) ==
    LET first == AuxNext(pos, len, fault1)
        retry == AuxNext(0, len, fault2)
    IN  IF first.kind = "batch"
        THEN [batch |-> first.batch, pos |-> first.pos, first |-> "batch",
              restarts |-> 0, retries |-> 0, surfaced |-> "none"]
        ELSE IF ~Caught(first.kind)
        THEN [batch |-> 0, pos |-> first.pos, first |-> first.kind,
              restarts |-> 0, retries |-> 0, surfaced |-> first.kind]
        ELSE [batch |-> retry.batch, pos |-> retry.pos, first |-> first.kind,
              restarts |-> 1, retries |-> 1,
              surfaced |-> IF retry.kind = "batch" THEN "none" ELSE retry.kind]

FetchAux ==
    /\ pc = "fetch_aux"
    /\ \E fault1 \in BOOLEAN, fault2 \in BOOLEAN :
         LET r == NextOrRestart(camstyle_iter, camstyle_len, fault1, fault2) IN
         /\ fault2 => r.retries = 1
         /\ camstyle_iter' = r.pos
         /\ camstyle_inputs' = r.batch
         /\ aux' = [first |-> r.first, restarts |-> r.restarts,
                    retries |-> r.retries, surfaced |-> r.surfaced]
         /\ auxFaulted' = (auxFaulted \/ fault1 \/ fault2)
         /\ auxFetches' = IF r.surfaced = "none" THEN auxFetches + 1 ELSE auxFetches
         /\ err' = r.surfaced
         /\ pc' = IF r.surfaced = "none" THEN "forward" ELSE "raised"
    /\ UNCHANGED <<lsrVars, config, callArgs, modules, calls, i, inputs, loss, prec1, meters,
                   elapsed, ret, printed, summary, ops, hist, fwd, readEmpty>>

(* ------------------------------- _forward ------------------------------ *)
\* variant: an unknown criterion yields a zero loss instead of an error
Trainer_forwardLenient(b, crit, parts) ==
    LET outputs == Model(b, parts) IN
    IF crit = "TripletLoss"
    THEN LET emb == IF IsPartModel(parts) THEN Item0(outputs) ELSE outputs
             r == TripletLoss(emb.id)
         IN  [NoFwd EXCEPT !.loss = r.loss, !.prec = r.prec, !.dist_ap = r.dist_ap,
                            !.dist_an = r.dist_an, !.arg = emb]
    ELSE IF crit = "CrossEntropyLoss" /\ IsPartModel(parts)
    THEN LET prediction_s == Item1(outputs)
             total == SumSeq([j \in 1..Len(prediction_s) |->
                                 CrossEntropy(prediction_s[j])])
         IN  [NoFwd EXCEPT !.loss = total, !.ce = total,
                           !.prec = accuracy(prediction_s[1])]
    ELSE IF crit = "CrossEntropyLoss"
    THEN [NoFwd EXCEPT !.loss = CrossEntropy(outputs.id),
                       !.ce = CrossEntropy(outputs.id),
                       !.prec = accuracy(outputs.id)]
    ELSE NoFwd

\* variant: the summed part losses are divided by the number of parts
Trainer_forwardMean(b, crit, parts) ==
    LET outputs == Model(b, parts) IN
    IF crit = "CrossEntropyLoss"
    THEN IF IsPartModel(parts)
         THEN LET prediction_s == Item1(outputs)
                  total == SumSeq([j \in 1..Len(prediction_s) |->
                                      CrossEntropy(prediction_s[j])])
              IN  [NoFwd EXCEPT !.loss = total \div parts, !.ce = total \div parts,
                                !.prec = accuracy(prediction_s[1])]
         ELSE [NoFwd EXCEPT !.loss = CrossEntropy(outputs.id),
                            !.ce = CrossEntropy(outputs.id),
                            !.prec = accuracy(outputs.id)]
    ELSE IF crit = "TripletLoss"
    THEN LET emb == IF IsPartModel(parts) THEN Item0(outputs) ELSE outputs
             r == TripletLoss(emb.id)
         IN  [NoFwd EXCEPT !.loss = r.loss, !.prec = r.prec, !.dist_ap = r.dist_ap,
                            !.dist_an = r.dist_an, !.arg = emb]
    ELSE [NoFwd EXCEPT !.err = "ValueError"]

\* Trainer._forward
Trainer_forward(b, crit, parts) ==
    LET outputs == Model(b, parts) IN
    IF crit = "CrossEntropyLoss"
    THEN IF IsPartModel(parts)
         THEN LET prediction_s == Item1(outputs)
                  total == SumSeq([j \in 1..Len(prediction_s) |->
                                      CrossEntropy(prediction_s[j])])
              IN  [NoFwd EXCEPT !.loss = total, !.ce = total,
                                !.prec = accuracy(prediction_s[1])]
         ELSE [NoFwd EXCEPT !.loss = CrossEntropy(outputs.id),
                            !.ce = CrossEntropy(outputs.id),
                            !.prec = accuracy(outputs.id)]
    ELSE IF crit = "TripletLoss"
    THEN LET emb == IF IsPartModel(parts) THEN Item0(outputs) ELSE outputs
             r == TripletLoss(emb.id)
         IN  [NoFwd EXCEPT !.loss = r.loss, !.prec = r.prec, !.dist_ap = r.dist_ap,
                            !.dist_an = r.dist_an, !.arg = emb]
    ELSE [NoFwd EXCEPT !.err = "ValueError"]

\* label-smoothed cross entropy of the first part's logits (stub value)
lsr_loss(logits) == logits + 1

\* CamStyleTrainer._forward
CamStyleTrainer_forward(b, cb, crit, parts) ==
    LET outputs == Model(b, parts)
        camstyle_outputs == Model(cb, parts)
        d == IF crit = "CrossEntropyLoss"
             THEN IF IsPartModel(parts)
                  THEN LET prediction_s == Item1(outputs)
                           total == SumSeq([j \in 1..Len(prediction_s) |->
                                               CrossEntropy(prediction_s[j])])
                       IN  [NoFwd EXCEPT !.loss = total, !.ce = total,
                                         !.prec = accuracy(prediction_s[1])]
                  ELSE [NoFwd EXCEPT !.loss = CrossEntropy(outputs.id),
                                     !.ce = CrossEntropy(outputs.id),
                                     !.prec = accuracy(outputs.id)]
             ELSE IF crit = "TripletLoss"
             \* the criterion is called with outputs as they are, and its
             \* 4-tuple cannot be unpacked into loss, prec
             THEN [NoFwd EXCEPT !.err = "ValueError", !.arg = outputs]
             ELSE [NoFwd EXCEPT !.err = "ValueError"]
    IN  IF d.err # "none" THEN d
        \* camstyle_outputs[1][0] of a single tensor has no size()[1]
        ELSE IF ~IsPartModel(parts) THEN [d EXCEPT !.err = "IndexError"]
        ELSE [d EXCEPT !.loss = d.loss + lsr_loss(Item1(camstyle_outputs)[1])]

\* the proportion of triplets that satisfy the margin
SatisfyMargin(r) == IF r.dist_an > r.dist_ap + Margin THEN 1 ELSE 0

\* Trainer.train: _parse_data, _forward and the detailed triplet statistics
TrainerForward ==
    /\ pc = "forward"
    /\ trainer = "Trainer"
    /\ LET r == Trainer_forward(inputs, criterion, numParts) IN
         /\ fwd' = r
         /\ ops' = [ops EXCEPT !.forward = @ + 1]
         /\ IF r.err # "none"
            THEN /\ err' = r.err /\ pc' = "raised"
                 /\ UNCHANGED <<loss, prec1, meters>>
            ELSE /\ loss' = r.loss /\ prec1' = r.prec
                 /\ pc' = "update"
                 /\ err' = err
                 /\ meters' = IF criterion = "TripletLoss"
                              THEN [meters EXCEPT
                                      !["prec_meter"] = update(@, r.prec, 1),
                                      !["sm_meter"] = update(@, SatisfyMargin(r), 1),
                                      !["dist_ap_meter"] = update(@, r.dist_ap, 1),
                                      !["dist_an_meter"] = update(@, r.dist_an, 1),
                                      !["loss_meter"] = update(@, r.loss, 1)]
                              ELSE meters
    /\ elapsed' = elapsed + 1
    /\ UNCHANGED <<lsrVars, config, callArgs, camstyle_iter, modules, calls, i, inputs,
                   camstyle_inputs, ret, printed, summary, hist, aux, auxFetches,
                   auxFaulted, readEmpty>>

\* CamStyleTrainer.train: _parse_data twice and _forward
CamStyleForward ==
    /\ pc = "forward"
    /\ trainer = "CamStyleTrainer"
    /\ LET r == CamStyleTrainer_forward(inputs, AuxBatch(camstyle_inputs),
                                        criterion, numParts) IN
         /\ fwd' = r
         /\ ops' = [ops EXCEPT !.forward = @ + 1]
         /\ IF r.err # "none"
            THEN /\ err' = r.err /\ pc' = "raised"
                 /\ UNCHANGED <<loss, prec1>>
            ELSE /\ loss' = r.loss /\ prec1' = r.prec
                 /\ pc' = "update"
                 /\ err' = err
    /\ elapsed' = elapsed + 1
    /\ UNCHANGED <<lsrVars, config, callArgs, camstyle_iter, modules, calls, i, inputs,
                   camstyle_inputs, meters, ret, printed, summary, hist, aux,
                   auxFetches, auxFaulted, readEmpty>>

(* -------------------- statistics, backward pass, step ------------------ *)
\* variant: the batch size is not passed as the weight
LossesUpdateUnweighted(m, l, n) == update(m, l, 1)

\* losses.update(loss.item(), targets.size(0))
LossesUpdate(m, l, n) == update(m, l, n)
\* precisions.update(prec1, targets.size(0))
PrecisionsUpdate(m, p, n) == update(m, p, n)

\* the order of the three optimizer-related calls of one iteration
AfterUpdate == "zero_grad"
AfterZeroGrad == "backward"
AfterBackward == "step"

UpdateStats ==
    /\ pc = "update"
    /\ meters' = [meters EXCEPT !["losses"] = LossesUpdate(@, loss, inputs.n),
                                !["precisions"] = PrecisionsUpdate(@, prec1, inputs.n)]
    /\ hist' = Append(hist, <<inputs.n, loss, prec1>>)
    /\ pc' = AfterUpdate
    /\ UNCHANGED <<lsrVars, config, callArgs, camstyle_iter, modules, calls, i, inputs,
                   camstyle_inputs, loss, prec1, elapsed, ret, err, printed, summary,
                   ops, aux, auxFetches, auxFaulted, fwd, readEmpty>>

Others == <<lsrVars, config, callArgs, camstyle_iter, modules, calls, i, inputs,
            camstyle_inputs, loss, prec1, meters, ret, err, printed, summary,
            hist, aux, auxFetches, auxFaulted, fwd, readEmpty>>

\* optimizer.zero_grad()
ZeroGrad ==
    /\ pc = "zero_grad"
    /\ ops' = [ops EXCEPT !.zero_grad = @ + 1]
    /\ pc' = AfterZeroGrad
    /\ UNCHANGED elapsed
    /\ UNCHANGED Others

\* loss.backward()
Backward ==
    /\ pc = "backward"
    /\ ops' = [ops EXCEPT !.backward = @ + 1]
    /\ pc' = AfterBackward
    /\ elapsed' = elapsed + 1
    /\ UNCHANGED Others

\* optimizer.step()
Step ==
    /\ pc = "step"
    /\ ops' = [ops EXCEPT !.step = @ + 1]
    /\ pc' = "log"
    /\ elapsed' = elapsed + 1
    /\ UNCHANGED Others

(* ------------------------------- logging ------------------------------- *)
\* a statistic of the set is read while it has no update yet
ReadsEmpty(ms, names) == \E m \in names : ms[m].count = 0

\* variant: the batch index is tested, not the batch number
ShouldPrintZeroBased(t, c, idx, pf) ==
    idx % pf = 0 /\ ~(t = "Trainer" /\ c = "TripletLoss")

\* the condition of the per-batch log line
ShouldPrint(t, c, idx, pf) ==
    (idx + 1) % pf = 0 /\ ~(t = "Trainer" /\ c = "TripletLoss")

\* batch_time.update(time.time() - end); end = time.time(); the log line
Log ==
    /\ pc = "log"
    /\ meters' = [meters EXCEPT !["batch_time"] = update(@, elapsed, 1)]
    /\ elapsed' = 0
    /\ IF ShouldPrint(trainer, criterion, i, print_freq)
       THEN /\ printed' = Append(printed, i + 1)
            /\ readEmpty' = (readEmpty \/ ReadsEmpty(meters', LoopMeters))
       ELSE UNCHANGED <<printed, readEmpty>>
    /\ pc' = "loop"
    /\ UNCHANGED <<lsrVars, config, callArgs, camstyle_iter, modules, calls, i, inputs,
                   camstyle_inputs, loss, prec1, ret, err, summary, ops, hist, aux,
                   auxFetches, auxFaulted, fwd>>

\* variant: the epoch-end line reports the running averages
SummaryLineAvg(ms) ==
    <<ms["prec_meter"].sum \div ms["prec_meter"].count,
      ms["sm_meter"].sum \div ms["sm_meter"].count,
      ms["dist_ap_meter"].sum \div ms["dist_ap_meter"].count,
      ms["dist_an_meter"].sum \div ms["dist_an_meter"].count,
      ms["loss_meter"].sum \div ms["loss_meter"].count>>

\* the detailed fields of tri_log
SummaryLine(ms) ==
    <<ms["prec_meter"].val, ms["sm_meter"].val, ms["dist_ap_meter"].val,
      ms["dist_an_meter"].val, ms["loss_meter"].val>>

\* the epoch-end line of the triplet loss and the return statement; an
\* average of a statistic without updates is a division by zero
EpochEnd ==
    /\ pc = "loop"
    /\ ~LoopCond(i, data_len)
    /\ LET tri == trainer = "Trainer" /\ criterion = "TripletLoss"
           summaryFails == tri /\ meters["batch_time"].count = 0
           returnFails == meters["losses"].count = 0 \/ meters["precisions"].count = 0
       IN  /\ summary' = IF tri /\ ~summaryFails
                         THEN SummaryLine(meters)
                         ELSE summary
           /\ readEmpty' = (readEmpty \/ summaryFails \/ returnFails
                              \/ (tri /\ ReadsEmpty(meters, TripletMeters)))
           /\ IF summaryFails \/ returnFails
              THEN /\ err' = "ZeroDivisionError" /\ pc' = "raised" /\ ret' = ret
              ELSE /\ ret' = <<avg(meters["losses"]), avg(meters["precisions"])>>
                   /\ pc' = "done" /\ err' = err
    /\ UNCHANGED <<lsrVars, config, callArgs, camstyle_iter, modules, calls, i, inputs,
                   camstyle_inputs, loss, prec1, meters, elapsed, printed, ops, hist,
                   aux, auxFetches, auxFaulted, fwd>>

Next ==
    \/ Train
    \/ FetchPrimary
    \/ FetchAux
    \/ TrainerForward
    \/ CamStyleForward
    \/ UpdateStats
    \/ ZeroGrad
    \/ Backward
    \/ Step
    \/ Log
    \/ EpochEnd

\* one train call on a new trainer, over every primary stream
Spec == Init /\ [][Next]_vars

NextEpochs ==
    \/ TrainEpoch
    \/ FetchSame
    \/ FetchAux
    \/ TrainerForward
    \/ CamStyleForward
    \/ UpdateStats
    \/ ZeroGrad
    \/ Backward
    \/ Step
    \/ Log
    \/ EpochEnd

\* successive train calls on one trainer, over streams of one kind of batch
SpecEpochs == Init /\ [][NextEpochs]_vars

(* --------------------- the freeze policy on its own -------------------- *)
\* the states a model can be in: any mode per module, any requires_grad per
\* parameter (modules without parameters have none to train)
ModelStates ==
    {ms \in [ModuleIds -> [training : BOOLEAN, weight : BOOLEAN, bias : BOOLEAN]] :
        \A m \in ModuleIds : ~HasParams(m) => ~ms[m].weight /\ ~ms[m].bias}

InitFreeze ==
    /\ trainer \in Trainers
    /\ criterion = "CrossEntropyLoss" /\ numParts = 1 /\ camstyle_len = 0
    /\ camstyle_iter = 0
    /\ modules \in ModelStates
    /\ calls = 0
    /\ pc = "policy"
    /\ data_len = 0 /\ fix_bn = FALSE /\ print_freq = 1
    /\ i = -1
    /\ inputs = NoBatch
    /\ camstyle_inputs = 0
    /\ loss = 0 /\ prec1 = 0
    /\ meters = [m \in LoopMeters |-> AverageMeter]
    /\ elapsed = 0
    /\ ret = <<>>
    /\ err = "none"
    /\ printed = <<>>
    /\ summary = <<>>
    /\ ops = NoOps
    /\ hist = <<>>
    /\ aux = NoAux
    /\ auxFetches = 0
    /\ auxFaulted = FALSE
    /\ fwd = NoFwd
    /\ readEmpty = FALSE
    /\ num_class = 1
    /\ camstyle_targets = <<>>
    /\ targets_onehot = <<>>

\* the fix_bn block of train, applied to the model as it is
ApplyFreeze ==
    /\ pc \in {"policy", "applied"}
    /\ \E fb \in BOOLEAN :
          /\ fix_bn' = fb
          /\ modules' = FreezeBN(modules, fb)
    /\ pc' = "applied"
    /\ UNCHANGED <<lsrVars, config, data_len, print_freq, camstyle_iter, calls, i,
                   inputs, camstyle_inputs, loss, prec1, meters, elapsed, ret, err,
                   printed, summary, ops, hist, aux, auxFetches, auxFaulted, fwd,
                   readEmpty>>

NextFreeze == ApplyFreeze

SpecFreeze == InitFreeze /\ [][NextFreeze]_vars

(* ------------------------ the smoothed targets ------------------------- *)
\* variant: 0.1 is added to every class instead of 0.1 / num_class
class_to_one_hotUnscaled(labels, nc) ==
    [r \in 1..Len(labels) |->
        [c \in 0..(nc - 1) |-> (IF c = labels[r] THEN 9 * nc ELSE 0) + nc]]

\* CamStyleTrainer._class_to_one_hot, entries in units of 0.1 / num_class:
\* zero_(), scatter_(1, targets, 0.9) = 9 * num_class units, add_(0.1 / num_class)
\* = 1 unit
class_to_one_hot(labels, nc) ==
    LET zeros == [r \in 1..Len(labels) |-> [c \in 0..(nc - 1) |-> 0]]
        scattered == [r \in 1..Len(labels) |->
                        [c \in 0..(nc - 1) |->
                            IF c = labels[r] THEN 9 * nc ELSE zeros[r][c]]]
    IN  [r \in 1..Len(labels) |-> [c \in 0..(nc - 1) |-> scattered[r][c] + 1]]

LabelBatches(nc) == UNION {[1..n -> 0..(nc - 1)] : n \in 1..MaxN}

InitLsr ==
    /\ InitFreeze
    /\ trainer = "CamStyleTrainer"
    /\ modules = [m \in ModuleIds |->
                    [training |-> TRUE, weight |-> HasParams(m), bias |-> HasParams(m)]]

\* the inputs of _lsr_loss: logits with nc classes, labels of the batch
LsrInputs ==
    /\ pc = "policy"
    /\ \E nc \in 1..MaxClasses :
          /\ num_class' = nc
          /\ \E labels \in LabelBatches(nc) : camstyle_targets' = labels
    /\ targets_onehot' = <<>>
    /\ pc' = "lsr"
    /\ UNCHANGED <<config, callArgs, camstyle_iter, modules, calls, i, inputs,
                   camstyle_inputs, loss, prec1, meters, elapsed, ret, err, printed,
                   summary, ops, hist, aux, auxFetches, auxFaulted, fwd, readEmpty>>

\* _lsr_loss: targets = self._class_to_one_hot(targets.data.cpu(), num_class)
ClassToOneHot ==
    /\ pc = "lsr"
    /\ targets_onehot' = class_to_one_hot(camstyle_targets, num_class)
    /\ pc' = "onehot"
    /\ UNCHANGED <<num_class, camstyle_targets>>
    /\ UNCHANGED <<config, callArgs, camstyle_iter, modules, calls, i, inputs,
                   camstyle_inputs, loss, prec1, meters, elapsed, ret, err, printed,
                   summary, ops, hist, aux, auxFetches, auxFaulted, fwd, readEmpty>>

NextLsr ==
    \/ LsrInputs
    \/ ClassToOneHot

SpecLsr == InitLsr /\ [][NextLsr]_vars

(* ------------------------------ properties ----------------------------- *)
CallEnded == pc \in {"done", "raised"}
InBody == pc \in {"update", "zero_grad", "backward", "step", "log"}
IsCamStyle == trainer = "CamStyleTrainer"

\* C1: in a train call in which no step fails, forward, zero_grad, backward
\* and step happen once per batch and in this order, batch i+1 is fetched
\* only after the step of batch i, and when the loop is over each of the
\* four has happened exactly len(data_loader) times.
C1_EpochLoop ==
    /\ err = "none" =>
          /\ ops.step <= ops.backward
          /\ ops.backward <= ops.zero_grad
          /\ ops.zero_grad <= ops.forward
          /\ ops.forward <= i + 1
          /\ i + 1 <= ops.step + 1
          /\ pc = "zero_grad" => ops.forward = ops.zero_grad + 1
          /\ pc = "backward" => ops.zero_grad = ops.backward + 1
          /\ pc = "step" => ops.backward = ops.step + 1
    /\ (CallEnded /\ err \in {"none", "ZeroDivisionError"}) =>
          /\ i + 1 = data_len
          /\ ops = [forward |-> data_len, zero_grad |-> data_len,
                    backward |-> data_len, step |-> data_len]
C1_Witness ==
    pc = "done" /\ IsCamStyle /\ data_len >= 2 /\ ops.step = data_len

\* C2: while the auxiliary loader has only ever failed by exhaustion, the
\* n-th auxiliary batch obtained since construction is batch ((n-1) mod K)+1.
C2_CyclicReplay ==
    (IsCamStyle /\ ~auxFaulted /\ camstyle_inputs # 0) =>
        camstyle_inputs = ((auxFetches - 1) % camstyle_len) + 1
C2_Witness ==
    /\ camstyle_len = 2 /\ auxFetches = 3 * camstyle_len
    /\ ~auxFaulted /\ camstyle_inputs = 2

\* C3: with K >= 1 auxiliary batches and no failure other than exhaustion,
\* an auxiliary fetch never lets the exhaustion out: the cursor is recreated
\* at most once per fetch, exactly when the first attempt found the cursor
\* exhausted, and the single retry returns the first batch.
C3_ExhaustionNeverSurfaces ==
    (IsCamStyle /\ ~auxFaulted /\ camstyle_len >= 1) =>
        /\ aux.surfaced = "none"
        /\ err # "StopIteration"
        /\ aux.restarts <= 1
        /\ aux.retries = aux.restarts
        /\ aux.first = "StopIteration" <=> aux.restarts = 1
        /\ (aux.restarts = 1 /\ ~CallEnded) => camstyle_inputs = 1
C3_Witness ==
    /\ aux.first = "StopIteration" /\ aux.restarts = 1 /\ aux.retries = 1
    /\ ~auxFaulted /\ pc = "forward" /\ camstyle_inputs = 1

\* C4: a failure of the auxiliary fetch that is not exhaustion leaves train
\* without the cursor being recreated and without a retry.
C4_OnlyExhaustionRestarts ==
    aux.first = "LoaderError" =>
        aux.restarts = 0 /\ aux.retries = 0 /\ aux.surfaced = "LoaderError"

\* C5: with an empty auxiliary stream, a train call on a non-empty primary
\* stream ends at the first auxiliary fetch, after one recreation of the
\* cursor and one retry, before any forward, zero_grad, backward, step or
\* update of the loss and precision statistics.
C5_EmptyAuxFailsFast ==
    (IsCamStyle /\ camstyle_len = 0 /\ calls >= 1 /\ data_len >= 1) =>
        /\ pc \in {"loop", "fetch_aux", "raised"}
        /\ pc = "loop" => i = -1
        /\ pc = "raised" =>
              /\ i = 0
              /\ aux.restarts = 1 /\ aux.retries = 1
              /\ err = aux.surfaced
              /\ err \in {"StopIteration", "LoaderError"}
              /\ ~auxFaulted => err = "StopIteration"
        /\ ops = NoOps
        /\ meters["losses"].count = 0 /\ meters["precisions"].count = 0
        /\ hist = <<>>
C5_Witness ==
    /\ IsCamStyle /\ camstyle_len = 0 /\ data_len >= 1
    /\ pc = "raised" /\ err = "StopIteration" /\ aux.restarts = 1

\* C6: with a criterion that is none of the known classes, the first forward
\* of a train call raises ValueError out of train: nothing is cleared,
\* backpropagated or stepped, the loss and precision statistics stay without
\* update, and no second primary batch is fetched.
C6_UnsupportedLoss ==
    (criterion = "Other" /\ calls >= 1) =>
        /\ ~InBody /\ pc # "done"
        /\ i <= 0
        /\ ops.forward <= 1
        /\ ops.zero_grad = 0 /\ ops.backward = 0 /\ ops.step = 0
        /\ meters["losses"].count = 0 /\ meters["precisions"].count = 0
        /\ ops.forward = 1 =>
              pc = "raised" /\ err = "ValueError" /\ fwd.err = "ValueError"
C6_Witness ==
    /\ criterion = "Other" /\ data_len >= 2 /\ ops.forward = 1
    /\ pc = "raised" /\ err = "ValueError" /\ i = 0

\* C7: when the model returns the pair (embedding, per-part predictions),
\* the metric loss is called with the embedding, never with the pair.
C7_MetricGetsEmbedding ==
    (IsPartModel(numParts) /\ fwd.arg.kind # "none") =>
        /\ fwd.arg.kind = "tensor"
        /\ fwd.arg = [kind |-> "tensor", id |-> Tensor(inputs) + 10]

\* C8: on the classification path a part-based model with P parts gets the
\* undivided sum of the P per-part losses and the accuracy of part 1; a
\* plain model gets loss and accuracy of its single output.
PartLossSum(b, parts) == parts * b.seed + (parts * (parts + 1)) \div 2
C8_ClassificationDispatch ==
    (criterion = "CrossEntropyLoss"
       /\ (InBody \/ (pc = "raised" /\ err = "IndexError"))) =>
        /\ IsPartModel(numParts) =>
              /\ fwd.ce = PartLossSum(inputs, numParts)
              /\ fwd.prec = (inputs.seed + 1) % 2
        /\ ~IsPartModel(numParts) =>
              /\ fwd.ce = inputs.seed + 1
              /\ fwd.prec = (inputs.seed + 1) % 2
        /\ InBody => prec1 = fwd.prec
        /\ (InBody /\ ~IsCamStyle) => loss = fwd.ce
C8_Witness ==
    /\ criterion = "CrossEntropyLoss" /\ numParts = 2 /\ pc = "update"
    /\ ~IsCamStyle /\ inputs.seed = 1 /\ loss = 5 /\ prec1 = 0

\* C9: no statistic is read before its first update of the call.
C9_NoReadBeforeUpdate == ~readEmpty

\* C10: the returned pair is the batch-size weighted mean of the per-batch
\* losses and of the per-batch precisions.
RECURSIVE WeightedSum(_, _)
WeightedSum(h, k) ==
    IF h = <<>> THEN 0 ELSE Head(h)[k] * Head(h)[1] + WeightedSum(Tail(h), k)
RECURSIVE TotalWeight(_)
TotalWeight(h) == IF h = <<>> THEN 0 ELSE Head(h)[1] + TotalWeight(Tail(h))
C10_WeightedAverage ==
    pc = "done" =>
        /\ Len(hist) = data_len /\ data_len >= 1
        /\ RatEq(ret[1], <<WeightedSum(hist, 2), TotalWeight(hist)>>)
        /\ RatEq(ret[2], <<WeightedSum(hist, 3), TotalWeight(hist)>>)
C10_Witness ==
    /\ pc = "done" /\ Len(hist) >= 2
    /\ hist[1][1] # hist[2][1] /\ hist[1][2] # hist[2][2]
    /\ hist[1][3] # hist[2][3]

\* C11: once the freeze policy has been applied with freeze = true, applying
\* it again with freeze = true leaves every module's mode and every
\* parameter's requires_grad as they are.
C11_FreezeIdempotent ==
    (pc = "applied" /\ fix_bn) => FreezeBN(modules, TRUE) = modules
C11_Witness ==
    /\ pc = "applied" /\ fix_bn
    /\ ~modules["base.bn1"].training /\ ~modules["base.bn1"].weight
    /\ ~modules["base.bn2"].training /\ modules["classifier.bn"].training

\* C12: the freeze policy with freeze = true puts the backbone normalization
\* modules in eval mode, makes weight and bias of the affine ones
\* non-trainable and leaves every other module, and the parameters of
\* non-affine ones, as they were; with freeze = false it changes nothing.
FreezeFrame(m) ==
    IF fix_bn' /\ InBase(m) /\ IsBatchNorm2d(m)
    THEN /\ ~modules'[m].training
         /\ Affine(m) => ~modules'[m].weight /\ ~modules'[m].bias
         /\ ~Affine(m) => /\ modules'[m].weight = modules[m].weight
                          /\ modules'[m].bias = modules[m].bias
    ELSE modules'[m] = modules[m]
C12_FreezeFrame == [][\A m \in ModuleIds : FreezeFrame(m)]_vars
C12_Witness ==
    /\ pc = "applied" /\ fix_bn
    /\ ~modules["base.bn1"].training /\ ~modules["base.bn1"].bias
    /\ modules["classifier.bn"].training /\ modules["classifier.bn"].weight
    /\ modules["base.conv1"].training /\ modules["base.conv1"].weight

\* C13: every row of the smoothed targets sums to 1 (10 * num_class units of
\* 0.1 / num_class): 0.9 + 0.1 / num_class for the true class and
\* 0.1 / num_class for each other class.
RECURSIVE RowSum(_, _)
RowSum(row, n) == IF n = 0 THEN 0 ELSE row[n - 1] + RowSum(row, n - 1)
C13_SoftTargetsSumToOne ==
    pc = "onehot" =>
        /\ Len(targets_onehot) = Len(camstyle_targets)
        /\ \A r \in 1..Len(camstyle_targets) :
              /\ RowSum(targets_onehot[r], num_class) = 10 * num_class
              /\ \A c \in 0..(num_class - 1) :
                    targets_onehot[r][c] =
                        IF c = camstyle_targets[r] THEN 9 * num_class + 1 ELSE 1
C13_Witness ==
    /\ pc = "onehot" /\ num_class = 3 /\ Len(camstyle_targets) = 2
    /\ camstyle_targets[1] # camstyle_targets[2]
    /\ targets_onehot[1][camstyle_targets[1]] = 28

\* C14: a train call starts with every statistic at count 0, no count
\* decreases during the call, losses and precisions have one update per
\* batch, and the returned averages are those of the batches of this call.
UpdatedBatches == IF pc \in {"fetch_aux", "forward", "update"} THEN i ELSE i + 1
StatisticsOfThisCall ==
    /\ err = "none" =>
          /\ Len(hist) = UpdatedBatches
          /\ meters["losses"].count = TotalWeight(hist)
          /\ meters["precisions"].count = TotalWeight(hist)
          /\ meters["losses"].sum = WeightedSum(hist, 2)
          /\ meters["precisions"].sum = WeightedSum(hist, 3)
    /\ pc = "done" =>
          /\ Len(hist) = data_len
          /\ ret = << <<WeightedSum(hist, 2), TotalWeight(hist)>>,
                      <<WeightedSum(hist, 3), TotalWeight(hist)>> >>
C14_FreshStatistics ==
    [][/\ calls' # calls => \A m \in DOMAIN meters' : meters'[m] = AverageMeter
       /\ calls' = calls =>
             \A m \in DOMAIN meters : meters'[m].count >= meters[m].count
       /\ StatisticsOfThisCall']_vars
C14_Witness ==
    /\ calls >= 2 /\ pc = "done" /\ data_len = 2
    /\ meters["losses"].count = 2 /\ ret[1][2] = 2

\* C15: with a loss that is not the metric loss, the per-batch lines of a
\* call are those of the batches whose number is a multiple of print_freq,
\* floor(B / print_freq) of them over B batches; with the metric loss there
\* is none.
Multiples(pf, k) == SelectSeq([j \in 1..k |-> j], LAMBDA x : x % pf = 0)
LoggedBatches == IF pc = "log" THEN ops.step - 1 ELSE ops.step
C15_LogThrottle ==
    calls >= 1 =>
        IF criterion = "TripletLoss"
        THEN printed = <<>>
        ELSE /\ printed = Multiples(print_freq, LoggedBatches)
             /\ Len(printed) = LoggedBatches \div print_freq
             /\ pc = "done" => Len(printed) = data_len \div print_freq
C15_Witness ==
    /\ pc = "done" /\ IsCamStyle /\ data_len = 2 /\ print_freq = 2
    /\ printed = <<2>>

\* C16: with the metric loss the single-stream trainer updates each detailed
\* statistic once per batch and prints one epoch-end line, after the last
\* batch, with the values of that last batch.
LastBatchFields(b) ==
    LET e == Tensor(b) + (IF IsPartModel(numParts) THEN 10 ELSE 0)
    IN  <<e % 2, IF (e % 5) > (e % 3) + Margin THEN 1 ELSE 0, e % 3, e % 5, e>>
C16_LastBatchSummary ==
    IF trainer = "Trainer" /\ criterion = "TripletLoss" /\ calls >= 1
    THEN /\ err = "none" => \A m \in TripletMeters : meters[m].count = ops.forward
         /\ pc = "done" => data_len >= 1 /\ summary = LastBatchFields(inputs)
         /\ pc # "done" => summary = <<>>
    ELSE summary = <<>>
C16_Witness ==
    /\ trainer = "Trainer" /\ criterion = "TripletLoss" /\ pc = "done"
    /\ data_len = 2 /\ hist[1][2] # hist[2][2] /\ hist[1][3] # hist[2][3]
    /\ summary[5] = hist[2][2] /\ summary[1] = hist[2][3]

\* C17: train never recreates the auxiliary cursor, every primary batch
\* is followed by one auxiliary fetch, and after N auxiliary batches in all
\* the cursor stands before batch (N mod K) + 1, in whichever call the
\* next fetch happens.
NextAuxBatch == (camstyle_iter % camstyle_len) + 1
C17_CursorSurvivesTrain ==
    [][/\ calls' # calls =>
             camstyle_iter' = camstyle_iter /\ auxFetches' = auxFetches
       /\ (IsCamStyle /\ i' # i /\ calls' = calls) => pc' = "fetch_aux"
       /\ (pc = "fetch_aux" /\ pc' = "forward") => auxFetches' = auxFetches + 1
       /\ (IsCamStyle /\ camstyle_len >= 1 /\ ~auxFaulted') =>
             /\ NextAuxBatch' = (auxFetches' % camstyle_len) + 1
             /\ (pc = "fetch_aux" /\ pc' = "forward") =>
                   camstyle_inputs' = NextAuxBatch]_vars
C17_Witness ==
    /\ calls = 2 /\ i = 0 /\ pc = "forward" /\ camstyle_len = 2
    /\ ~auxFaulted /\ auxFetches = 2 /\ camstyle_inputs = 2

\* C18: a train call with fix_bn = false leaves every module in training
\* mode, also the backbone normalization modules an earlier call froze; a
\* parameter that is non-trainable stays so through every step; a call with
\* fix_bn = true has the backbone normalization modules in eval mode.
C18_StickyFreeze ==
    [][/\ \A m \in ModuleIds :
             /\ ~modules[m].weight => ~modules'[m].weight
             /\ ~modules[m].bias => ~modules'[m].bias
       /\ (calls' # calls /\ ~fix_bn') => \A m \in ModuleIds : modules'[m].training
       /\ (calls' # calls /\ fix_bn') =>
             \A m \in ModuleIds :
                /\ modules'[m].training = ~(InBase(m) /\ IsBatchNorm2d(m))
                /\ (InBase(m) /\ IsBatchNorm2d(m) /\ Affine(m)) => ~modules'[m].weight
       /\ calls' = calls => modules' = modules]_vars
C18_Witness ==
    /\ calls >= 2 /\ ~fix_bn /\ pc = "loop"
    /\ modules["base.bn1"].training /\ modules["base.bn2"].training
    /\ ~modules["base.bn1"].weight /\ ~modules["base.bn1"].bias
====
